---------------------------- MODULE Spec2Model ----------------------------
(***************************************************************************)
(* Background statistics recalculation scheduler of InnoDB                 *)
(* (dict/dict0stats_bg.cc): the recalc pool, the timer that runs the       *)
(* background task, the task itself, and its coordination with DROP.       *)
(*                                                                         *)
(* Threads of the model:                                                   *)
(*   - foreground writers   (dict_stats_update_if_needed_func)             *)
(*   - the timer callback   (dict_stats_func and the steps of              *)
(*                           dict_stats_process_entry_from_recalc_pool)    *)
(*   - one DDL thread       (dict_stats_recalc_pool_del followed by        *)
(*                           dict_stats_wait_bg_to_stop_using_table)       *)
(*   - one administrative thread (dict_stats_init/start/shutdown/deinit)   *)
(*   - callers of dict_stats_schedule_now()                                *)
(*                                                                         *)
(* A critical section that contains no blocking call is one action: it is  *)
(* taken when its mutex is free.  dict_stats_start() and                   *)
(* dict_stats_shutdown() hold dict_stats_mutex across a step, because      *)
(* deleting the timer waits for a running callback; that is what makes the *)
(* try_lock() of dict_stats_schedule() fail.                               *)
(***************************************************************************)
EXTENDS Integers, Sequences, FiniteSets, TLC

\* ------------------------------------------------------------------ bounds

\* number of table ids
NumTables == 3

\* number of tables in the dictionary cache when the server starts; the other
\* ids name tables that were dropped before
StartTables == 2

\* seconds by which one step of the clock advances
TickSec == 10

\* writes counted per table before the counter stops growing
MaxCounter == 28

\* row writes of the sessions in the end-to-end scenario
MaxWrites == 4

\* ---------------------------------------------------------- program constants

\* #define MIN_RECALC_INTERVAL 10 /* seconds */
MIN_RECALC_INTERVAL == 10

Tables == 1 .. NumTables

BG_STAT_NONE == "NONE"
BG_STAT_IN_PROGRESS == "IN_PROGRESS"

\* no table_id_t value held in the local variable table_id
NoTable == 0

\* dict_stats_timer has no pending firing
TimerOff == -1

\* the sessions write without limit
Unlimited == -1

VARIABLES
    recalc_pool,        \* static recalc_pool_t recalc_pool: sequence of table ids
    stats_initialised,  \* static bool stats_initialised
    stats_deinit_done,  \* dict_stats_deinit() has run (no re-initialisation)
    dict_tables,        \* the dict_table_t objects, by table id
    dict_sys_latch,     \* holder of dict_sys.latch: "free", "bg" or "ddl"
    dict_stats_timer,   \* static tpool::timer* dict_stats_timer: TRUE iff non-null
    live_timers,        \* number of timer objects created and not deleted
    timer_due,          \* ms until the armed timer fires, or TimerOff
    dict_stats_mutex,   \* holder of dict_stats_mutex: "free" or "adm"
    bg_pc,              \* position of the timer callback
    table_id,           \* local table_id of dict_stats_process_entry_from_recalc_pool
    ret,                \* local ret of dict_stats_process_entry_from_recalc_pool
    ddl_pc,             \* position of the DDL thread
    ddl_table,          \* the table the DDL thread is dropping
    del_note,           \* per table: what dict_stats_recalc_pool_del found
    adm_pc,             \* position of the administrative thread
    srv_stats_modified_counter, \* the global override of the transient threshold
    writes_left,        \* row writes the sessions still perform, or Unlimited
    wsrep_bf,           \* the sessions' trx.is_wsrep() && !wsrep_thd_is_applying()
                        \* && wsrep_thd_is_BF(): high-priority WSREP sessions
    aborted,            \* the server was aborted by a failed assertion: no
                        \* thread takes a step any more
    enq_older,          \* pairs <<a, b>>: a and b are pending, a was enqueued first
    last_add            \* what dict_stats_recalc_pool_add(table, false) did in
                        \* this pass of the callback: "inserted" or "present";
                        \* "none" before it ran

vars ==
    << recalc_pool, stats_initialised, stats_deinit_done, dict_tables,
       dict_sys_latch, dict_stats_timer, live_timers, timer_due,
       dict_stats_mutex, bg_pc, table_id, ret, ddl_pc, ddl_table,
       del_note, adm_pc, srv_stats_modified_counter, writes_left,
       wsrep_bf, aborted, enq_older, last_add >>

pool_vars == << recalc_pool, enq_older, last_add >>
timer_vars == << dict_stats_timer, live_timers, timer_due >>
bg_vars == << bg_pc, table_id, ret >>
ddl_vars == << ddl_pc, ddl_table, del_note >>
life_vars == << stats_initialised, stats_deinit_done >>
env_vars == << srv_stats_modified_counter, writes_left, wsrep_bf, aborted >>

\* ------------------------------------------------------------------ helpers

Range(s) == { s[i] : i \in 1 .. Len(s) }

Min(a, b) == IF a < b THEN a ELSE b

Max(a, b) == IF a > b THEN a ELSE b

\* std::vector::erase(iter) on the element at index i
EraseAt(s, i) == [ j \in 1 .. Len(s) - 1 |-> IF j < i THEN s[j] ELSE s[j + 1] ]

\* index of the first element equal to id, 0 if there is none
RECURSIVE FindFrom(_, _, _)
FindFrom(s, id, i) ==
    IF i > Len(s) THEN 0
    ELSE IF s[i] = id THEN i
    ELSE FindFrom(s, id, i + 1)

\* ------------------------------------------------------- the recalc pool

\* mutant: push_back without the scan for an entry equal to id
pool_after_add_no_scan(pool, id) == Append(pool, id)

\* mutant: the id is inserted at the head instead of pushed back
pool_after_add_at_head(pool, id) ==
    IF FindFrom(pool, id, 1) # 0 THEN pool ELSE << id >> \o pool

\* dict_stats_recalc_pool_add(): the pool after the scan and the push_back
pool_after_add(pool, id) ==
    IF FindFrom(pool, id, 1) # 0 THEN pool ELSE Append(pool, id)

\* mutant: dict_stats_schedule_now() is called for every id pushed
add_schedules_any_size(pool, id, schedule_dict_stats_task) ==
    /\ FindFrom(pool, id, 1) = 0
    /\ schedule_dict_stats_task

\* dict_stats_recalc_pool_add(): whether dict_stats_schedule_now() is called
add_schedules(pool, id, schedule_dict_stats_task) ==
    /\ FindFrom(pool, id, 1) = 0
    /\ Len(Append(pool, id)) = 1
    /\ schedule_dict_stats_task

\* mutant: the newest entry is returned instead of the oldest
pool_get_id_newest(pool) == pool[Len(pool)]

\* dict_stats_recalc_pool_get(): the id returned (*id = recalc_pool.at(0))
pool_get_id(pool) == pool[1]

\* mutant: the id is returned and left in the pool
pool_after_get_keeps(pool) == pool

\* dict_stats_recalc_pool_get(): the pool after erase(begin())
pool_after_get(pool) == EraseAt(pool, 1)

\* mutant: the scan finds the entry and nothing is erased
pool_after_del_no_erase(pool, id) == pool

\* mutant: erase(begin()) instead of erase(iter)
pool_after_del_erase_first(pool, id) ==
    IF FindFrom(pool, id, 1) = 0 THEN pool ELSE EraseAt(pool, 1)

\* dict_stats_recalc_pool_del(): the pool after the scan and the erase
pool_after_del(pool, id) ==
    IF FindFrom(pool, id, 1) = 0 THEN pool
    ELSE EraseAt(pool, FindFrom(pool, id, 1))

\* enqueue order of the pending ids after a request to add id
older_after_add(pool, older, id) ==
    IF id \in Range(pool) THEN older
    ELSE older \cup { <<a, id>> : a \in Range(pool) }

\* enqueue order of the pending ids after id left the pool
older_after_leave(older, id) ==
    { p \in older : p[1] # id /\ p[2] # id }

\* ------------------------------------------------------------- the timer

\* mutant: dict_stats_schedule() takes dict_stats_mutex with a blocking lock()
schedule_lock_blocks(mutex) == mutex = "free"

\* dict_stats_schedule(): lk.try_lock() returns at once, whoever holds
\* dict_stats_mutex
schedule_lock_returns(mutex) == TRUE

\* mutant: set_time() without the test of dict_stats_timer
due_after_schedule_no_timer_test(mutex, timer, due, ms) ==
    IF mutex # "free" THEN due ELSE ms

\* mutant: a delay that is already armed is kept
due_after_schedule_keeps_armed(mutex, timer, due, ms) ==
    IF mutex # "free" THEN due
    ELSE IF timer /\ due = TimerOff THEN ms
    ELSE due

\* dict_stats_schedule(ms): the timer after try_lock() and set_time(ms, 0)
due_after_schedule(mutex, timer, due, ms) ==
    IF mutex # "free" THEN due
    ELSE IF timer THEN ms
    ELSE due

\* dict_stats_schedule_now(): dict_stats_schedule(0)
due_after_schedule_now(mutex, timer, due) ==
    due_after_schedule(mutex, timer, due, 0)

\* ----------------------------------------------------------------- Init

InitTable ==
    [ exists |-> TRUE,
      accessible |-> TRUE,
      stats_bg_flag |-> BG_STAT_NONE,
      since_recalc |-> MIN_RECALC_INTERVAL,
      stat_initialized |-> TRUE,
      persistent |-> TRUE,
      temporary |-> FALSE,
      auto_recalc |-> TRUE,
      stat_n_rows |-> 0,
      stat_modified_counter |-> 0,
      n_ref_count |-> 0 ]

\* the dict_table_t after the table was dropped and its object freed
FreedTable == [ InitTable EXCEPT !.exists = FALSE ]

Init ==
    /\ recalc_pool = << >>
    /\ stats_initialised = FALSE
    /\ stats_deinit_done = FALSE
    /\ dict_tables =
         [ t \in Tables |-> IF t <= StartTables THEN InitTable ELSE FreedTable ]
    /\ dict_sys_latch = "free"
    /\ dict_stats_timer = FALSE
    /\ live_timers = 0
    /\ timer_due = TimerOff
    /\ dict_stats_mutex = "free"
    /\ bg_pc = "idle"
    /\ table_id = NoTable
    /\ ret = FALSE
    /\ ddl_pc = "idle"
    /\ ddl_table = NoTable
    /\ del_note = [ t \in Tables |-> "none" ]
    /\ adm_pc = "idle"
    /\ srv_stats_modified_counter = 0
    /\ writes_left = Unlimited
    /\ wsrep_bf = FALSE
    /\ aborted = FALSE
    /\ enq_older = {}
    /\ last_add = "none"

\* --------------------------------------------------- the foreground writers

\* dict_stats_update(): the statistics engine recomputes, stamps
\* stats_last_recalc with the current time and resets the counter
dict_stats_update(tbl) ==
    [ tbl EXCEPT !.since_recalc = 0, !.stat_modified_counter = 0 ]

\* dict_stats_recalc_pool_add(table, schedule_dict_stats_task), with
\* recalc_pool_mutex held from the scan to the return
dict_stats_recalc_pool_add(t, schedule_dict_stats_task) ==
    /\ recalc_pool' = pool_after_add(recalc_pool, t)
    /\ enq_older' = older_after_add(recalc_pool, enq_older, t)
    /\ last_add' = IF schedule_dict_stats_task THEN last_add
                   ELSE IF t \in Range(recalc_pool) THEN "present"
                   ELSE "inserted"
    /\ add_schedules(recalc_pool, t, schedule_dict_stats_task)
         => schedule_lock_returns(dict_stats_mutex)
    /\ timer_due' =
         IF add_schedules(recalc_pool, t, schedule_dict_stats_task)
         THEN due_after_schedule_now(dict_stats_mutex, dict_stats_timer, timer_due)
         ELSE timer_due

\* mutant: the comparison uses the counter after the increment
write_enqueues_incremented(tbl) ==
    /\ tbl.stat_modified_counter + 1 > tbl.stat_n_rows \div 10
    /\ tbl.auto_recalc

\* persistent statistics: counter > n_rows / 10 && auto recalc enabled
write_enqueues(tbl) ==
    /\ tbl.stat_modified_counter > tbl.stat_n_rows \div 10
    /\ tbl.auto_recalc

\* mutant: the threshold is the larger of 16 and n_rows / 16
transient_threshold_max(n_rows, srv) ==
    IF srv # 0 THEN Min(srv, Max(16, n_rows \div 16)) ELSE Max(16, n_rows \div 16)

\* transient statistics: threshold = 16 + n_rows / 16, min'ed with the override
transient_threshold(n_rows, srv) ==
    IF srv # 0 THEN Min(srv, 16 + n_rows \div 16) ELSE 16 + n_rows \div 16

\* transient statistics: counter > threshold
write_recalcs(tbl, srv) ==
    tbl.stat_modified_counter > transient_threshold(tbl.stat_n_rows, srv)

\* the table after counter = table->stat_modified_counter++
counted(tbl) ==
    [ tbl EXCEPT !.stat_modified_counter = tbl.stat_modified_counter + 1 ]

\* mutant: temporary tables are treated like the others
write_skips_nothing(tbl) == FALSE

\* if (table->name.is_temporary()) return;
write_skips_temporary(tbl) == tbl.temporary

\* table->is_temporary() of the callback's assertion; declared outside this
\* file and taken to be the same notion of a temporary table as the writer's
table_is_temporary(tbl) == tbl.temporary

\* dict_stats_update_if_needed(table, trx) of the WITH_WSREP build; wsrep_veto
\* is trx.is_wsrep() && !wsrep_thd_is_applying() && wsrep_thd_is_BF().  The
\* caller holds a metadata lock on the table, so the table exists and is not
\* being dropped.
dict_stats_update_if_needed(t, wsrep_veto) ==
    /\ ~aborted
    /\ stats_initialised
    /\ dict_tables[t].exists
    /\ ~(ddl_pc # "idle" /\ ddl_table = t)
    /\ dict_tables[t].stat_modified_counter < MaxCounter
    /\ writes_left # 0
    /\ writes_left' = IF writes_left > 0 THEN writes_left - 1 ELSE writes_left
    /\ LET tbl == dict_tables[t] IN
       IF ~tbl.stat_initialized
       THEN UNCHANGED << dict_tables, pool_vars, timer_due >>
       ELSE IF tbl.persistent
       THEN IF write_skips_temporary(tbl)
            THEN /\ dict_tables' = [ dict_tables EXCEPT ![t] = counted(tbl) ]
                 /\ UNCHANGED << pool_vars, timer_due >>
            ELSE IF write_enqueues(tbl) /\ wsrep_veto
            THEN /\ dict_tables' = [ dict_tables EXCEPT ![t] = counted(tbl) ]
                 /\ UNCHANGED << pool_vars, timer_due >>
            ELSE IF write_enqueues(tbl)
            THEN /\ dict_stats_recalc_pool_add(t, TRUE)
                 /\ dict_tables' =
                      [ dict_tables EXCEPT ![t].stat_modified_counter = 0 ]
            ELSE /\ dict_tables' = [ dict_tables EXCEPT ![t] = counted(tbl) ]
                 /\ UNCHANGED << pool_vars, timer_due >>
       ELSE IF write_recalcs(tbl, srv_stats_modified_counter)
       THEN /\ dict_tables' = [ dict_tables EXCEPT ![t] = dict_stats_update(tbl) ]
            /\ UNCHANGED << pool_vars, timer_due >>
       ELSE /\ dict_tables' = [ dict_tables EXCEPT ![t] = counted(tbl) ]
            /\ UNCHANGED << pool_vars, timer_due >>
    /\ UNCHANGED << life_vars, dict_sys_latch, dict_stats_timer, live_timers,
                    dict_stats_mutex, bg_vars, ddl_vars, adm_pc,
                    srv_stats_modified_counter, wsrep_bf, aborted >>

\* dict_stats_recalc_pool_add(table) called while stats_initialised is false,
\* before dict_stats_init() or after dict_stats_deinit().  The function tests
\* neither; mysql_mutex_lock() of a recalc_pool_mutex that was not initialised
\* or was destroyed is undefined: a build that checks its mutexes aborts, any
\* other locks it and goes on.
dict_stats_recalc_pool_add_uninitialised(t) ==
    /\ ~aborted
    /\ ~stats_initialised
    /\ dict_tables[t].exists
    /\ \/ /\ aborted' = TRUE
          /\ UNCHANGED << pool_vars, timer_due >>
       \/ /\ dict_stats_recalc_pool_add(t, TRUE)
          /\ recalc_pool' # recalc_pool
          /\ UNCHANGED aborted
    /\ UNCHANGED << life_vars, dict_tables, dict_sys_latch, dict_stats_timer,
                    live_timers, dict_stats_mutex, bg_vars, ddl_vars, adm_pc,
                    srv_stats_modified_counter, writes_left, wsrep_bf >>

\* dict_stats_update_if_needed_func(table) of the build without WSREP
dict_stats_update_if_needed_func(t) == dict_stats_update_if_needed(t, FALSE)

\* dict_stats_schedule_now(), called from outside this file
dict_stats_schedule_now ==
    /\ ~aborted
    /\ schedule_lock_returns(dict_stats_mutex)
    /\ timer_due' =
         due_after_schedule_now(dict_stats_mutex, dict_stats_timer, timer_due)
    /\ timer_due' # timer_due
    /\ UNCHANGED << pool_vars, life_vars, dict_tables, dict_sys_latch,
                    dict_stats_timer, live_timers, dict_stats_mutex, bg_vars,
                    ddl_vars, adm_pc, env_vars >>

\* ------------------------------------------------------ the timer callback

\* the thread pool's timer does not run its callback while an earlier
\* invocation of it has not returned
callback_not_running == bg_pc = "idle"

\* the thread pool runs the callback of the armed timer: one invocation at a
\* time, and the firing that starts it is consumed
dict_stats_func ==
    /\ ~aborted
    /\ dict_stats_timer
    /\ timer_due = 0
    /\ callback_not_running
    /\ timer_due' = TimerOff
    /\ bg_pc' = "get"
    /\ UNCHANGED << pool_vars, life_vars, dict_tables, dict_sys_latch,
                    dict_stats_timer, live_timers, dict_stats_mutex, table_id,
                    ret, ddl_vars, adm_pc, env_vars >>

\* next_table_id: dict_stats_recalc_pool_get(&table_id); on an empty pool
\* dict_stats_process_entry_from_recalc_pool() returns false and the while
\* loop of dict_stats_func() ends
process_entry_get ==
    /\ ~aborted
    /\ bg_pc = "get"
    /\ IF recalc_pool = << >>
       THEN /\ bg_pc' = "idle"
            /\ table_id' = NoTable
            /\ ret' = FALSE
            /\ UNCHANGED pool_vars
       ELSE /\ table_id' = pool_get_id(recalc_pool)
            /\ recalc_pool' = pool_after_get(recalc_pool)
            /\ enq_older' = older_after_leave(enq_older, pool_get_id(recalc_pool))
            /\ last_add' = "none"
            /\ bg_pc' = "open"
            /\ UNCHANGED ret
    /\ UNCHANGED << life_vars, dict_tables, dict_sys_latch, timer_vars,
                    dict_stats_mutex, ddl_vars, adm_pc,
                    env_vars >>

\* mutant: the callback opens and marks the table without dict_sys.lock()
bg_skips_dict_sys_lock == TRUE

\* whether dict_sys.lock() of the callback can be taken
bg_can_lock_dict_sys == dict_sys_latch = "free"

\* dict_table_open_on_id(): the handle of a table that exists
table_acquire(tbl) == [ tbl EXCEPT !.n_ref_count = @ + 1 ]

\* mutant: the handle is not given back
table_release_leaks(tbl) == tbl

\* table->release(), dict_table_close(table, TRUE, FALSE)
table_release(tbl) == [ tbl EXCEPT !.n_ref_count = @ - 1 ]

\* mutant: the test of is_accessible() is missing
table_usable_unchecked(tbl) == TRUE

\* table->is_accessible() of the opened table
table_usable(tbl) == tbl.accessible

\* dict_sys.lock(); dict_table_open_on_id(); is_accessible(); either
\* no_table: unlock and goto next_table_id, or set BG_STAT_IN_PROGRESS and unlock
process_entry_open ==
    /\ ~aborted
    /\ bg_pc = "open"
    /\ bg_can_lock_dict_sys
    /\ IF ~dict_tables[table_id].exists
       THEN /\ bg_pc' = "get"
            /\ UNCHANGED dict_tables
       ELSE IF ~table_usable(table_acquire(dict_tables[table_id]))
       THEN /\ dict_tables' =
                 [ dict_tables EXCEPT ![table_id] = table_release(table_acquire(@)) ]
            /\ bg_pc' = "get"
       ELSE /\ dict_tables' =
                 [ dict_tables EXCEPT ![table_id] =
                     [ table_acquire(@) EXCEPT !.stats_bg_flag = BG_STAT_IN_PROGRESS ] ]
            /\ bg_pc' = "check"
    /\ UNCHANGED << pool_vars, life_vars, dict_sys_latch, timer_vars,
                    dict_stats_mutex, table_id, ret, ddl_vars, adm_pc,
                    env_vars >>

\* mutant: the comparison never lets a table through
recalc_always_too_soon(tbl) == TRUE

\* difftime(time(NULL), table->stats_last_recalc) < MIN_RECALC_INTERVAL
recalc_too_soon(tbl) == tbl.since_recalc < MIN_RECALC_INTERVAL

\* mutant: the throttled table is not put back
process_entry_requeue_drops ==
    /\ ~aborted
    /\ bg_pc = "check"
    /\ recalc_too_soon(dict_tables[table_id])
    /\ bg_pc' = "schedule"
    /\ UNCHANGED << pool_vars, timer_due, life_vars, dict_tables, dict_sys_latch,
                    dict_stats_timer, live_timers, dict_stats_mutex, table_id,
                    ret, ddl_vars, adm_pc, env_vars >>

\* the throttled branch: dict_stats_recalc_pool_add(table, false)
process_entry_requeue ==
    /\ ~aborted
    /\ bg_pc = "check"
    /\ recalc_too_soon(dict_tables[table_id])
    /\ dict_stats_recalc_pool_add(table_id, FALSE)
    /\ bg_pc' = "schedule"
    /\ UNCHANGED << life_vars, dict_tables, dict_sys_latch, dict_stats_timer,
                    live_timers, dict_stats_mutex, table_id, ret, ddl_vars,
                    adm_pc, env_vars >>

\* the throttled branch: dict_stats_schedule(MIN_RECALC_INTERVAL*1000); ret = false
process_entry_schedule ==
    /\ ~aborted
    /\ bg_pc = "schedule"
    /\ schedule_lock_returns(dict_stats_mutex)
    /\ timer_due' = due_after_schedule(dict_stats_mutex, dict_stats_timer,
                                       timer_due, MIN_RECALC_INTERVAL * 1000)
    /\ ret' = FALSE
    /\ bg_pc' = "close"
    /\ UNCHANGED << pool_vars, life_vars, dict_tables, dict_sys_latch,
                    dict_stats_timer, live_timers, dict_stats_mutex, table_id,
                    ddl_vars, adm_pc, env_vars >>

\* the other branch: dict_stats_update(table, DICT_STATS_RECALC_PERSISTENT); ret = true
process_entry_update ==
    /\ ~aborted
    /\ bg_pc = "check"
    /\ ~recalc_too_soon(dict_tables[table_id])
    /\ dict_tables' =
         [ dict_tables EXCEPT ![table_id] = dict_stats_update(dict_tables[table_id]) ]
    /\ ret' = TRUE
    /\ bg_pc' = "close"
    /\ UNCHANGED << pool_vars, life_vars, dict_sys_latch, timer_vars,
                    dict_stats_mutex, table_id, ddl_vars, adm_pc,
                    env_vars >>

\* mutant: the loop goes on after a throttled table
pc_after_return_loops(r) == "get"

\* while (dict_stats_process_entry_from_recalc_pool()) {}: where the callback
\* is after the function has returned r
pc_after_return(r) == IF r THEN "get" ELSE "idle"

\* mutant: the flag is left as it is
flag_after_close_keeps(flag) == flag

\* table->stats_bg_flag = BG_STAT_NONE
flag_after_close(flag) == BG_STAT_NONE

\* dict_sys.lock(); stats_bg_flag = BG_STAT_NONE; dict_table_close();
\* dict_sys.unlock(); return ret.  dict_stats_func() loops while ret is true.
process_entry_close ==
    /\ ~aborted
    /\ bg_pc = "close"
    /\ bg_can_lock_dict_sys
    /\ dict_tables' =
         [ dict_tables EXCEPT ![table_id] =
             table_release([ @ EXCEPT !.stats_bg_flag = flag_after_close(@) ]) ]
    /\ bg_pc' = pc_after_return(ret)
    /\ table_id' = NoTable
    /\ ret' = FALSE
    /\ last_add' = "none"
    /\ UNCHANGED << recalc_pool, enq_older, life_vars, dict_sys_latch, timer_vars,
                    dict_stats_mutex, ddl_vars, adm_pc,
                    env_vars >>

\* -------------------------------------------------------- the DDL thread

\* what dict_stats_recalc_pool_del() met: the callback using the table, or
\* the id pending or not, and whether the callback held a copy of the id
note_of_del(t) ==
    IF dict_tables[t].stats_bg_flag # BG_STAT_NONE THEN "in_progress"
    ELSE IF t \notin Range(recalc_pool) THEN "absent"
    ELSE IF table_id = t /\ bg_pc = "open" THEN "pending_taken"
    ELSE "pending"

\* the drop path, holding dict_sys.latch, calls dict_stats_recalc_pool_del(table)
dict_stats_recalc_pool_del(t) ==
    /\ ~aborted
    /\ ddl_pc = "idle"
    /\ stats_initialised
    /\ dict_tables[t].exists
    /\ dict_sys_latch = "free"
    /\ dict_sys_latch' = "ddl"
    /\ ddl_table' = t
    /\ recalc_pool' = pool_after_del(recalc_pool, t)
    /\ enq_older' = older_after_leave(enq_older, t)
    /\ last_add' = last_add
    /\ del_note' = [ del_note EXCEPT ![t] = note_of_del(t) ]
    /\ ddl_pc' = "wait"
    /\ UNCHANGED << life_vars, dict_tables, timer_vars, dict_stats_mutex,
                    bg_vars, adm_pc, env_vars >>

\* dict_stats_stop_bg(table): whether the callback is not using the table
dict_stats_stop_bg(tbl) == tbl.stats_bg_flag # BG_STAT_IN_PROGRESS

\* dict_stats_wait_bg_to_stop_using_table(): one evaluation of the loop
\* condition; DICT_BG_YIELD releases dict_sys.latch
dict_stats_wait_bg_to_stop_using_table ==
    /\ ~aborted
    /\ ddl_pc = "wait"
    /\ IF dict_stats_stop_bg(dict_tables[ddl_table])
       THEN /\ ddl_pc' = "stopped"
            /\ UNCHANGED dict_sys_latch
       ELSE /\ ddl_pc' = "yield"
            /\ dict_sys_latch' = "free"
    /\ UNCHANGED << pool_vars, life_vars, dict_tables, timer_vars,
                    dict_stats_mutex, bg_vars, ddl_table, del_note, adm_pc,
                    env_vars >>

\* DICT_BG_YIELD: dict_sys.lock() after the sleep
ddl_yield_relock ==
    /\ ~aborted
    /\ ddl_pc = "yield"
    /\ dict_sys_latch = "free"
    /\ dict_sys_latch' = "ddl"
    /\ ddl_pc' = "wait"
    /\ UNCHANGED << pool_vars, life_vars, dict_tables, timer_vars,
                    dict_stats_mutex, bg_vars, ddl_table, del_note, adm_pc,
                    env_vars >>

\* the drop path frees the table object and releases dict_sys.latch
ddl_free_table ==
    /\ ~aborted
    /\ ddl_pc = "stopped"
    /\ dict_tables' = [ dict_tables EXCEPT ![ddl_table] = FreedTable ]
    /\ dict_sys_latch' = "free"
    /\ ddl_pc' = "idle"
    /\ ddl_table' = NoTable
    /\ UNCHANGED << pool_vars, life_vars, timer_vars, dict_stats_mutex,
                    bg_vars, del_note, adm_pc, env_vars >>

\* ---------------------------------------------- the administrative thread

\* dict_stats_init()
dict_stats_init ==
    /\ ~aborted
    /\ adm_pc = "idle"
    /\ ~stats_initialised
    /\ ~stats_deinit_done
    /\ stats_initialised' = TRUE
    /\ UNCHANGED << pool_vars, stats_deinit_done, dict_tables, dict_sys_latch,
                    timer_vars, dict_stats_mutex, bg_vars, ddl_vars, adm_pc,
                    env_vars >>

\* dict_stats_start(): std::lock_guard lk(dict_stats_mutex)
dict_stats_start_lock ==
    /\ ~aborted
    /\ adm_pc = "idle"
    /\ stats_initialised
    /\ dict_stats_mutex = "free"
    /\ dict_stats_mutex' = "adm"
    /\ adm_pc' = "start"
    /\ UNCHANGED << pool_vars, life_vars, dict_tables, dict_sys_latch,
                    timer_vars, bg_vars, ddl_vars, env_vars >>

\* mutant: create_timer() is called without the test of dict_stats_timer
start_always_creates(timer) == TRUE

\* dict_stats_start(): whether create_timer() is called
start_creates(timer) == ~timer

\* dict_stats_start(): if (!dict_stats_timer) dict_stats_timer = create_timer()
dict_stats_start ==
    /\ ~aborted
    /\ adm_pc = "start"
    /\ dict_stats_timer' = TRUE
    /\ live_timers' =
         IF start_creates(dict_stats_timer) THEN live_timers + 1 ELSE live_timers
    /\ dict_stats_mutex' = "free"
    /\ adm_pc' = "idle"
    /\ UNCHANGED << pool_vars, life_vars, dict_tables, dict_sys_latch,
                    timer_due, bg_vars, ddl_vars, env_vars >>

\* dict_stats_shutdown(): std::lock_guard lk(dict_stats_mutex)
dict_stats_shutdown_lock ==
    /\ ~aborted
    /\ adm_pc = "idle"
    /\ dict_stats_mutex = "free"
    /\ dict_stats_mutex' = "adm"
    /\ adm_pc' = "shutdown"
    /\ UNCHANGED << pool_vars, life_vars, dict_tables, dict_sys_latch,
                    timer_vars, bg_vars, ddl_vars, env_vars >>

\* delete dict_stats_timer waits until no callback of the timer is running
timer_delete_returns == bg_pc = "idle"

\* mutant: the shutdown also clears the pool
dict_stats_shutdown_drains ==
    /\ ~aborted
    /\ adm_pc = "shutdown"
    /\ timer_delete_returns
    /\ live_timers' = IF dict_stats_timer THEN live_timers - 1 ELSE live_timers
    /\ dict_stats_timer' = FALSE
    /\ timer_due' = TimerOff
    /\ dict_stats_mutex' = "free"
    /\ adm_pc' = "idle"
    /\ recalc_pool' = << >>
    /\ enq_older' = {}
    /\ UNCHANGED << last_add, life_vars, dict_tables, dict_sys_latch,
                    bg_vars, ddl_vars, env_vars >>

\* dict_stats_shutdown(): delete dict_stats_timer; dict_stats_timer = 0
dict_stats_shutdown ==
    /\ ~aborted
    /\ adm_pc = "shutdown"
    /\ timer_delete_returns
    /\ live_timers' = IF dict_stats_timer THEN live_timers - 1 ELSE live_timers
    /\ dict_stats_timer' = FALSE
    /\ timer_due' = TimerOff
    /\ dict_stats_mutex' = "free"
    /\ adm_pc' = "idle"
    /\ UNCHANGED << pool_vars, life_vars, dict_tables, dict_sys_latch,
                    bg_vars, ddl_vars, env_vars >>

\* mutant: the pool is not cleared
pool_after_deinit_keeps(pool) == pool

\* dict_stats_recalc_pool_deinit(): recalc_pool.clear() and the swap
pool_after_deinit(pool) == << >>

\* dict_stats_deinit(), called after the dict_stats task has exited
dict_stats_deinit ==
    /\ ~aborted
    /\ adm_pc = "idle"
    /\ ddl_pc = "idle"
    /\ bg_pc = "idle"
    /\ ~dict_stats_timer
    /\ IF ~stats_initialised
       THEN UNCHANGED << pool_vars, life_vars >>
       ELSE /\ stats_initialised' = FALSE
            /\ stats_deinit_done' = TRUE
            /\ recalc_pool' = pool_after_deinit(recalc_pool)
            /\ enq_older' = {}
            /\ last_add' = "none"
    /\ UNCHANGED << dict_tables, dict_sys_latch, timer_vars, dict_stats_mutex,
                    bg_vars, ddl_vars, adm_pc, env_vars >>

\* ---------------------------------------------------------------- the clock

\* time(NULL) advances by TickSec seconds
Tick ==
    /\ ~aborted
    /\ dict_tables' =
         [ t \in Tables |->
             IF dict_tables[t].exists
             THEN [ dict_tables[t] EXCEPT !.since_recalc =
                      Min(MIN_RECALC_INTERVAL, dict_tables[t].since_recalc + TickSec) ]
             ELSE dict_tables[t] ]
    /\ timer_due' =
         IF timer_due > 0 THEN Max(0, timer_due - TickSec * 1000) ELSE timer_due
    /\ << dict_tables', timer_due' >> # << dict_tables, timer_due >>
    /\ UNCHANGED << pool_vars, life_vars, dict_sys_latch, dict_stats_timer,
                    live_timers, dict_stats_mutex, bg_vars, ddl_vars, adm_pc,
                    env_vars >>

\* ------------------------------------------------------- the specification

Writers == \E t \in Tables : dict_stats_update_if_needed_func(t)

Background ==
    \/ dict_stats_func
    \/ process_entry_get
    \/ process_entry_open
    \/ process_entry_requeue
    \/ process_entry_schedule
    \/ process_entry_update
    \/ process_entry_close

Ddl ==
    \/ \E t \in Tables : dict_stats_recalc_pool_del(t)
    \/ dict_stats_wait_bg_to_stop_using_table
    \/ ddl_yield_relock
    \/ ddl_free_table

Admin ==
    \/ dict_stats_init
    \/ dict_stats_start_lock
    \/ dict_stats_start
    \/ dict_stats_shutdown_lock
    \/ dict_stats_shutdown
    \/ dict_stats_deinit

Next ==
    \/ Writers
    \/ dict_stats_schedule_now
    \/ Background
    \/ Ddl
    \/ Admin
    \/ Tick

Spec == Init /\ [][Next]_vars

\* The server in steady state: dict_stats_init() and dict_stats_start() have
\* returned, every table id names a table of the dictionary cache, and neither
\* DDL nor the administrative thread runs.
InitStarted ==
    /\ recalc_pool = << >>
    /\ stats_initialised = TRUE
    /\ stats_deinit_done = FALSE
    /\ dict_sys_latch = "free"
    /\ dict_stats_timer = TRUE
    /\ live_timers = 1
    /\ timer_due = TimerOff
    /\ dict_stats_mutex = "free"
    /\ bg_pc = "idle"
    /\ table_id = NoTable
    /\ ret = FALSE
    /\ ddl_pc = "idle"
    /\ ddl_table = NoTable
    /\ del_note = [ t \in Tables |-> "none" ]
    /\ adm_pc = "idle"
    /\ srv_stats_modified_counter = 0
    /\ wsrep_bf = FALSE
    /\ aborted = FALSE
    /\ enq_older = {}
    /\ last_add = "none"

InitFifo ==
    /\ InitStarted
    /\ dict_tables = [ t \in Tables |-> InitTable ]
    /\ writes_left = Unlimited

NextSteady ==
    \/ Writers
    \/ Background
    \/ Tick

SpecFifo == InitFifo /\ [][NextSteady]_vars

\* Steady state with tables that are temporary or not, with persistent or
\* transient statistics, and sessions that perform MaxWrites row writes.
TempTables ==
    { [ InitTable EXCEPT !.temporary = a, !.persistent = p ] : a, p \in BOOLEAN }

InitTemp ==
    /\ InitStarted
    /\ dict_tables \in
         { f \in [ Tables -> TempTables \cup { FreedTable } ] :
             \A t \in Tables : f[t].exists <=> t <= StartTables }
    /\ writes_left = MaxWrites

SpecTemp == InitTemp /\ [][NextSteady]_vars

\* The end-to-end scenario: the server in steady state with StartTables tables,
\* each recalculated just now or long ago, sessions that perform MaxWrites row
\* writes, callers of dict_stats_schedule_now() and drops of the tables other
\* than table 1.  The thread pool runs a due callback, the callback and the DDL
\* thread keep running, a thread blocked in dict_sys.lock() gets the latch
\* while the other one sleeps in DICT_BG_YIELD, and time passes.
InitE2E ==
    /\ InitStarted
    /\ dict_tables \in
         { f \in [ Tables -> { InitTable, FreedTable,
                               [ InitTable EXCEPT !.since_recalc = 0 ] } ] :
             \A t \in Tables : f[t].exists <=> t <= StartTables }
    /\ writes_left = MaxWrites

DdlOthers ==
    \/ \E t \in Tables \ { 1 } : dict_stats_recalc_pool_del(t)
    \/ dict_stats_wait_bg_to_stop_using_table
    \/ ddl_yield_relock
    \/ ddl_free_table

DdlContinues ==
    \/ dict_stats_wait_bg_to_stop_using_table
    \/ ddl_yield_relock
    \/ ddl_free_table

NextE2E ==
    \/ Writers
    \/ dict_stats_schedule_now
    \/ Background
    \/ DdlOthers
    \/ Tick

SpecE2E ==
    /\ InitE2E
    /\ [][NextE2E]_vars
    /\ WF_vars(Background)
    /\ SF_vars(process_entry_close)
    /\ WF_vars(DdlContinues)
    /\ WF_vars(Tick)

\* a table becomes unreadable (its tablespace is discarded or found corrupted)
table_becomes_inaccessible(t) ==
    /\ ~aborted
    /\ dict_tables[t].exists
    /\ dict_tables[t].accessible
    /\ dict_tables' = [ dict_tables EXCEPT ![t].accessible = FALSE ]
    /\ UNCHANGED << pool_vars, life_vars, dict_sys_latch, timer_vars,
                    dict_stats_mutex, bg_vars, ddl_vars, adm_pc, env_vars >>

\* The end-to-end scenario in which tables also become inaccessible after
\* their ids were enqueued.
NextStale ==
    \/ NextE2E
    \/ \E t \in Tables : table_becomes_inaccessible(t)

SpecStale ==
    /\ InitE2E
    /\ [][NextStale]_vars

\* The end-to-end scenario with an administrative thread that shuts the
\* subsystem down while sessions write, tables other than table 1 are dropped
\* and the callback runs.  The administrative thread continues once the
\* deletion of the timer has returned.
BgContinues ==
    \/ process_entry_get
    \/ process_entry_open
    \/ process_entry_requeue
    \/ process_entry_schedule
    \/ process_entry_update
    \/ process_entry_close

AdmContinues == dict_stats_shutdown

NextShutdown ==
    \/ Writers
    \/ Background
    \/ DdlOthers
    \/ dict_stats_shutdown_lock
    \/ dict_stats_shutdown
    \/ Tick

SpecShutdown ==
    /\ InitE2E
    /\ [][NextShutdown]_vars
    /\ WF_vars(Background)
    /\ SF_vars(process_entry_close)
    /\ WF_vars(DdlContinues)
    /\ WF_vars(AdmContinues)
    /\ WF_vars(Tick)

\* The life cycle of the subsystem without DDL: sessions, callers of
\* dict_stats_schedule_now(), the callback, the clock and the administrative
\* thread that initialises, starts, shuts down and deinitialises.
NextLifecycle ==
    \/ Writers
    \/ dict_stats_schedule_now
    \/ Background
    \/ Admin
    \/ Tick

SpecLifecycle ==
    /\ Init
    /\ [][NextLifecycle]_vars

\* The life cycle with callers that add a table before dict_stats_init() or
\* after dict_stats_deinit(); nothing runs once the server was aborted.
NextMisuse ==
    \/ NextLifecycle
    \/ \E t \in Tables : dict_stats_recalc_pool_add_uninitialised(t)

SpecMisuse ==
    /\ Init
    /\ [][NextMisuse]_vars

\* The server in steady state while the administrative thread calls
\* dict_stats_start() again (the timer exists; nothing shuts it down).
InitRestart ==
    /\ InitStarted
    /\ dict_tables =
         [ t \in Tables |-> IF t <= StartTables THEN InitTable ELSE FreedTable ]
    /\ writes_left = Unlimited

NextRestart ==
    \/ Writers
    \/ Background
    \/ Tick
    \/ dict_stats_start_lock
    \/ dict_stats_start

SpecRestart == InitRestart /\ [][NextRestart]_vars

\* One table of any kind and the sessions' writes to it: statistics
\* initialised or not, persistent or transient, temporary or not, automatic
\* recalculation on or off, a row count, a modification counter, a global
\* override, sessions that are high-priority WSREP sessions or not.  The timer
\* exists.
RowCounts == { 0, 20, 160 }

Overrides == { 0, 5, 20, 30 }

WriteTables ==
    [ exists : { TRUE },
      accessible : { TRUE },
      stats_bg_flag : { BG_STAT_NONE },
      since_recalc : { MIN_RECALC_INTERVAL },
      stat_initialized : BOOLEAN,
      persistent : BOOLEAN,
      temporary : BOOLEAN,
      auto_recalc : BOOLEAN,
      stat_n_rows : RowCounts,
      stat_modified_counter : 0 .. MaxCounter - 1,
      n_ref_count : { 0 } ]

InitWrite ==
    /\ recalc_pool = << >>
    /\ stats_initialised = TRUE
    /\ stats_deinit_done = FALSE
    /\ dict_sys_latch = "free"
    /\ dict_stats_timer = TRUE
    /\ live_timers = 1
    /\ timer_due = TimerOff
    /\ dict_stats_mutex = "free"
    /\ bg_pc = "idle"
    /\ table_id = NoTable
    /\ ret = FALSE
    /\ ddl_pc = "idle"
    /\ ddl_table = NoTable
    /\ del_note = [ t \in Tables |-> "none" ]
    /\ adm_pc = "idle"
    /\ enq_older = {}
    /\ last_add = "none"
    /\ srv_stats_modified_counter \in Overrides
    /\ wsrep_bf \in BOOLEAN
    /\ aborted = FALSE
    /\ \E tbl \in WriteTables :
         dict_tables = [ t \in Tables |-> IF t = 1 THEN tbl ELSE FreedTable ]
    /\ writes_left = MaxWrites

NextWrite ==
    \E t \in Tables : dict_stats_update_if_needed(t, wsrep_bf)

SpecWrite == InitWrite /\ [][NextWrite]_vars

\* --------------------------------------------------------- lock nesting
\* recalc_pool_mutex is locked and unlocked inside one step of the model, so
\* what a thread holds when it asks for another lock is stated per call site.

\* mutant: dict_stats_recalc_pool_get() returns with recalc_pool_mutex locked
held_at_dict_sys_lock_after_get == { "recalc_pool_mutex" }

\* what the callback holds at its dict_sys.lock() calls: nothing;
\* dict_stats_recalc_pool_get() and dict_stats_recalc_pool_add(table, false)
\* unlock recalc_pool_mutex before they return
held_at_dict_sys_lock == {}

\* what the drop path holds when dict_stats_recalc_pool_del() locks
\* recalc_pool_mutex: dict_sys.latch (ut_ad(dict_sys.frozen()))
held_at_pool_lock_in_del == { "dict_sys.latch" }

\* what dict_stats_recalc_pool_add() holds when it calls
\* dict_stats_schedule_now(): recalc_pool_mutex, unlocked after the call
held_at_schedule_in_add == { "recalc_pool_mutex" }

\* what the callback holds when it calls dict_stats_schedule(): nothing
held_at_schedule_in_bg == {}

\* the callback's steps that call dict_sys.lock()
BgCatalogLockStep ==
    \/ bg_pc = "open" /\ bg_pc' # "open"
    \/ bg_pc = "close" /\ bg_pc' # "close"

\* the drop path's step that calls dict_stats_recalc_pool_del()
DelStep == ddl_pc = "idle" /\ ddl_pc' = "wait"

\* a session's dict_stats_recalc_pool_add() that pushed the first id and so
\* called dict_stats_schedule_now()
AddScheduleStep ==
    recalc_pool = << >> /\ recalc_pool' # << >> /\ bg_pc' = bg_pc

\* the callback's step that calls dict_stats_schedule()
BgScheduleStep == bg_pc = "schedule" /\ bg_pc' = "close"

\* the pairs << held, requested >> of the lock requests made in a step
LockPairs ==
    (IF BgCatalogLockStep
     THEN { << h, "dict_sys.latch" >> : h \in held_at_dict_sys_lock } ELSE {})
    \cup
    (IF DelStep
     THEN { << h, "recalc_pool_mutex" >> : h \in held_at_pool_lock_in_del } ELSE {})
    \cup
    (IF AddScheduleStep
     THEN { << h, "dict_stats_mutex" >> : h \in held_at_schedule_in_add } ELSE {})
    \cup
    (IF BgScheduleStep
     THEN { << h, "dict_stats_mutex" >> : h \in held_at_schedule_in_bg } ELSE {})

\* ------------------------------------------------------------------ claims

\* number of entries of the pool equal to id
Occurrences(pool, id) == Cardinality({ i \in 1 .. Len(pool) : pool[i] = id })

\* position of id in the pool, 0 if it is not pending
PosOf(pool, id) == IF id \in Range(pool) THEN CHOOSE i \in 1 .. Len(pool) : pool[i] = id ELSE 0

\* ids a and b are both in pool, a before b
Precedes(pool, a, b) ==
    \E i, j \in 1 .. Len(pool) : i < j /\ pool[i] = a /\ pool[j] = b

\* relative order of the ids common to p and q is the same in both
SameRelativeOrder(p, q) ==
    \A a, b \in Range(p) \cap Range(q) : Precedes(p, a, b) <=> Precedes(q, a, b)

\* C1: in every reachable state, whatever the interleaving of the writers'
\* add(id, true), the callback's throttle re-enqueue add(id, false), take_first,
\* remove and clear, every table id occurs at most once in the recalc pool; in
\* particular an add of an id that is already pending leaves one instance.
C1_PoolUnique ==
    \A t \in Tables : Occurrences(recalc_pool, t) <= 1

\* C1 witness: the callback took an id, a session enqueued it again, and the
\* callback's re-enqueue found it pending: the pool holds that id exactly once
C1_Witness ==
    /\ last_add = "present"
    /\ bg_pc = "schedule"
    /\ recalc_pool = << table_id >>
    /\ Occurrences(recalc_pool, table_id) = 1

\* the step of the callback that calls dict_stats_recalc_pool_get()
TakeFirstStep == bg_pc = "get" /\ bg_pc' # "get"

\* C2: take_first on a non-empty pool returns the id that was enqueued before
\* every other pending id, removes exactly that id and keeps the others in their
\* order; on an empty pool it returns none and leaves the pool empty.
C2_TakeFirst ==
    [][ TakeFirstStep =>
          IF recalc_pool = << >>
          THEN /\ recalc_pool' = << >>
               /\ table_id' = NoTable
               /\ bg_pc' = "idle"
          ELSE /\ table_id' \in Range(recalc_pool)
               /\ \A y \in Range(recalc_pool) \ { table_id' } :
                     << table_id', y >> \in enq_older
               /\ Range(recalc_pool') = Range(recalc_pool) \ { table_id' }
               /\ Len(recalc_pool') = Len(recalc_pool) - 1
               /\ SameRelativeOrder(recalc_pool, recalc_pool')
               /\ bg_pc' = "open" ]_vars

\* C2 witness: after adds of 1, 2, 3 the callback took 1 and left 2, 3
C2_Witness ==
    /\ bg_pc = "open"
    /\ table_id = 1
    /\ recalc_pool = << 2, 3 >>
    /\ enq_older = { << 2, 3 >> }

\* the throttled step of the callback: dict_stats_recalc_pool_add(table, false)
RequeueStep == bg_pc = "check" /\ bg_pc' = "schedule"

\* C3: when the callback took A and A fails the minimum-interval check, A is
\* re-enqueued behind every id that was pending (from B, C to B, C, A), and the
\* order of those ids is kept.
C3_RequeueAtTail ==
    [][ RequeueStep =>
          /\ table_id \in Range(recalc_pool')
          /\ SameRelativeOrder(recalc_pool, recalc_pool')
          /\ Range(recalc_pool') = Range(recalc_pool) \cup { table_id }
          /\ table_id \notin Range(recalc_pool) =>
               /\ recalc_pool'[Len(recalc_pool')] = table_id
               /\ \A y \in Range(recalc_pool) : Precedes(recalc_pool', y, table_id) ]_vars

\* C3 witness: the callback took 1 from 1, 2, 3, found it recalculated less than
\* MIN_RECALC_INTERVAL ago and its re-enqueue inserted it: the pool is 2, 3, 1
C3_Witness ==
    /\ bg_pc = "schedule"
    /\ table_id = 1
    /\ last_add = "inserted"
    /\ recalc_pool = << 2, 3, 1 >>

\* the callback uses table t: it has set BG_STAT_IN_PROGRESS and is reading
\* stats_last_recalc, re-enqueueing, rescheduling or recomputing
BgUses(t) == table_id = t /\ bg_pc \in { "check", "schedule", "close" }

\* the callback holds a copy of the id t and is about to resolve it
BgResolves(t) == table_id = t /\ bg_pc = "open"

\* C4: if dict_stats_recalc_pool_del(t) ran under dict_sys.latch while t was
\* pending and not marked IN_PROGRESS, the callback never marks, throttles or
\* recomputes t afterwards, and t is not pending again; if the callback held no
\* copy of the id at that moment it never resolves t either.
C4_NoGhostProcessing ==
    \A t \in Tables :
        /\ del_note[t] \in { "pending", "pending_taken" } =>
             /\ ~BgUses(t)
             /\ dict_tables[t].stats_bg_flag = BG_STAT_NONE
             /\ t \notin Range(recalc_pool)
        /\ del_note[t] = "pending" => ~BgResolves(t)

\* C4 witness: t was enqueued and dropped before the callback ran; the callback
\* now runs on a pool without t
C4_Witness ==
    \E t \in Tables :
        /\ del_note[t] = "pending"
        /\ ~dict_tables[t].exists
        /\ bg_pc = "get"
        /\ recalc_pool = << >>

\* C5: once dict_stats_wait_bg_to_stop_using_table(t) has returned and while
\* the caller holds dict_sys.latch, the flag of t is NONE and the callback does
\* not use t; a table is freed only with its flag NONE and unused.
C5_WaitStopsBackground ==
    [][ /\ ddl_pc' = "stopped" =>
             /\ dict_sys_latch' = "ddl"
             /\ dict_tables'[ddl_table'].stats_bg_flag = BG_STAT_NONE
             /\ ~(table_id' = ddl_table' /\ bg_pc' \in { "check", "schedule", "close" })
        /\ \A t \in Tables :
             dict_tables[t].exists /\ ~dict_tables'[t].exists =>
                 /\ dict_tables[t].stats_bg_flag = BG_STAT_NONE
                 /\ ~BgUses(t) ]_vars

\* C5 witness: the wait returned after the drop had met the table IN_PROGRESS
C5_Witness ==
    /\ ddl_pc = "stopped"
    /\ del_note[ddl_table] = "in_progress"
    /\ dict_sys_latch = "ddl"

\* the removal and the wait of the drop of t have completed
DropCompleted(t) ==
    \/ ddl_pc = "stopped" /\ ddl_table = t
    \/ del_note[t] # "none" /\ ~dict_tables[t].exists

\* C6 as claimed: once the drop of t has completed the pool does not hold t,
\* whatever the callback did meanwhile
C6_Original ==
    \A t \in Tables : DropCompleted(t) => t \notin Range(recalc_pool)

\* C6: once the drop of t has completed the pool does not hold t, provided the
\* flag of t was NONE when dict_stats_recalc_pool_del(t) ran; if t was
\* IN_PROGRESS the throttled branch may re-enqueue t while the drop waits.
C6_DropRemovesPending ==
    \A t \in Tables :
        DropCompleted(t) /\ del_note[t] # "in_progress" => t \notin Range(recalc_pool)

\* C6 witness: the drop removed a pending id of which the callback held a copy,
\* and has completed
C6_Witness ==
    \E t \in Tables :
        /\ ddl_pc = "stopped"
        /\ ddl_table = t
        /\ del_note[t] = "pending_taken"
        /\ t \notin Range(recalc_pool)

\* the callback has recomputed the statistics of t in this iteration
BgRecomputed(t) == table_id = t /\ bg_pc = "close" /\ ret

\* the callback has throttled t: re-enqueued it and asked for a firing
\* MIN_RECALC_INTERVAL later
BgThrottled(t) ==
    /\ table_id = t
    /\ bg_pc = "close"
    /\ ~ret
    /\ t \in Range(recalc_pool)
    /\ timer_due = MIN_RECALC_INTERVAL * 1000

\* nothing is pending, the callback is not running and no table is marked
Quiescent ==
    /\ recalc_pool = << >>
    /\ bg_pc = "idle"
    /\ \A t \in Tables : dict_tables[t].stats_bg_flag = BG_STAT_NONE

\* C7: with the timer started and not shut down, a session's enqueue into the
\* empty pool arms the timer for an immediate firing; a table that the callback
\* finds recalculated less than MIN_RECALC_INTERVAL ago is re-enqueued and the
\* timer rearmed for the interval; and table 1, which is never dropped, is
\* eventually recomputed once enqueued, after which the flags are NONE and the
\* pool is empty.
C7_EndToEnd ==
    /\ [][ recalc_pool = << >> /\ recalc_pool' # << >> /\ bg_pc' = bg_pc
             => timer_due' = 0 ]_vars
    /\ (bg_pc = "schedule" /\ table_id = 1) ~> BgThrottled(1)
    /\ (1 \in Range(recalc_pool)) ~> BgRecomputed(1)
    /\ (1 \in Range(recalc_pool)) ~> Quiescent

\* C7 witness: table 1 was enqueued into the empty pool, the callback ran,
\* found it recalculated just now, re-enqueued it and rearmed the timer
C7_Witness ==
    /\ BgThrottled(1)
    /\ dict_tables[1].stats_bg_flag = BG_STAT_IN_PROGRESS
    /\ dict_tables[1].since_recalc = 0
    /\ recalc_pool = << 1 >>
    /\ writes_left = MaxWrites - 2

\* C8 as claimed: while the timer exists, a non-empty pool always has a running
\* callback or a pending firing, so a skipped reschedule only delays
C8_NoLostSchedule ==
    dict_stats_timer /\ recalc_pool # << >> =>
        bg_pc # "idle" \/ timer_due # TimerOff

\* the step of dict_stats_start() that tests dict_stats_timer and returns
StartStep == adm_pc = "start" /\ adm_pc' = "idle"

\* the step of dict_stats_shutdown() that deletes the timer and returns
ShutdownStep == adm_pc = "shutdown" /\ adm_pc' = "idle"

\* C9: a dict_stats_start() that finds the timer leaves the timer, its pending
\* firing, the pool and the callback as they are; there is one timer object
\* when dict_stats_timer is set and none otherwise; a dict_stats_shutdown()
\* that finds no timer changes nothing but the mutex it releases.
C9_IdempotentLifecycle ==
    [][ /\ live_timers' = (IF dict_stats_timer' THEN 1 ELSE 0)
        /\ StartStep /\ dict_stats_timer =>
             UNCHANGED << timer_vars, pool_vars, bg_vars, dict_tables, life_vars >>
        /\ ShutdownStep /\ ~dict_stats_timer =>
             UNCHANGED << timer_vars, pool_vars, bg_vars, dict_tables, life_vars >> ]_vars

\* C9 witness: dict_stats_start() runs a second time, on an armed timer
C9_Witness ==
    /\ adm_pc = "start"
    /\ dict_stats_timer
    /\ live_timers = 1
    /\ timer_due = 0
    /\ recalc_pool # << >>

\* C10 as claimed: when dict_stats_start() creates the timer and ids are
\* already in the pool, a firing is pending after it returns
C10_StartArmsTimer ==
    [][ StartStep /\ ~dict_stats_timer /\ recalc_pool # << >>
          => timer_due' # TimerOff ]_vars


\* C11: dict_stats_shutdown() returns with dict_stats_timer null and nothing
\* armed; while dict_stats_timer is null every step, the dict_stats_schedule()
\* of an add into the empty pool and dict_stats_schedule_now() included, leaves
\* it null and unarmed unless it is dict_stats_start(), and no pass of the
\* callback begins.
C11_NoActivityAfterShutdown ==
    [][ /\ ShutdownStep => ~dict_stats_timer' /\ timer_due' = TimerOff
        /\ ~dict_stats_timer /\ ~StartStep =>
             /\ ~dict_stats_timer'
             /\ timer_due' = TimerOff
             /\ ~(bg_pc = "idle" /\ bg_pc' # "idle") ]_vars

\* C11 witness: the callback had recomputed table 1, the timer was shut down,
\* and table 1 is pending again with no timer and nothing armed
C11_Witness ==
    /\ ~dict_stats_timer
    /\ adm_pc = "idle"
    /\ stats_initialised
    /\ dict_tables[1].since_recalc = 0
    /\ recalc_pool = << 1 >>
    /\ timer_due = TimerOff
    /\ bg_pc = "idle"


\* a session's write to table 1 has run, where the sessions' writes are counted
WriteStep == writes_left' = writes_left - 1

\* the write recomputed the statistics of table 1 in the session's thread
RecomputedInWrite ==
    /\ dict_tables'[1].since_recalc = 0
    /\ dict_tables'[1].stat_modified_counter = 0

\* the write only counted: no recompute, the counter is one higher
OnlyCounted ==
    /\ dict_tables'[1].since_recalc = dict_tables[1].since_recalc
    /\ dict_tables'[1].stat_modified_counter = dict_tables[1].stat_modified_counter + 1

\* C12 as claimed: on a write to a transient table with initialised statistics
\* the threshold is max(16, row_count / 16), replaced by the smaller of it and
\* a non-zero override, and the statistics are recomputed in the write exactly
\* when the counter exceeds it
C12_Original ==
    [][ LET tbl == dict_tables[1]
            base == IF tbl.stat_n_rows \div 16 > 16 THEN tbl.stat_n_rows \div 16 ELSE 16
            threshold == IF srv_stats_modified_counter # 0 /\ srv_stats_modified_counter < base
                         THEN srv_stats_modified_counter ELSE base
        IN  WriteStep /\ tbl.stat_initialized /\ ~tbl.persistent =>
                IF tbl.stat_modified_counter > threshold
                THEN RecomputedInWrite ELSE OnlyCounted ]_vars

\* C12: on a write to a transient table with initialised statistics the
\* threshold is 16 + row_count / 16, replaced by the smaller of it and a
\* non-zero override; the statistics are recomputed in the write exactly when
\* the counter read before the increment exceeds it, and the pool and the timer
\* are left alone.  For row_count = 160 and no override the threshold is 26: a
\* counter of 27 recomputes, a counter of 26 does not.
C12_TransientThreshold ==
    [][ LET tbl == dict_tables[1]
            base == 16 + tbl.stat_n_rows \div 16
            threshold == IF srv_stats_modified_counter # 0 /\ srv_stats_modified_counter < base
                         THEN srv_stats_modified_counter ELSE base
        IN  WriteStep /\ tbl.stat_initialized /\ ~tbl.persistent =>
                /\ UNCHANGED << pool_vars, timer_due >>
                /\ IF tbl.stat_modified_counter > threshold
                   THEN RecomputedInWrite ELSE OnlyCounted
                /\ tbl.stat_n_rows = 160 /\ srv_stats_modified_counter = 0 =>
                     (RecomputedInWrite <=> tbl.stat_modified_counter >= 27) ]_vars

\* C12 witness: the first write to a transient table of 160 rows whose counter
\* was 27 has recomputed its statistics
C12_Witness ==
    /\ ~dict_tables[1].persistent
    /\ dict_tables[1].stat_initialized
    /\ dict_tables[1].stat_n_rows = 160
    /\ srv_stats_modified_counter = 0
    /\ dict_tables[1].since_recalc = 0
    /\ dict_tables[1].stat_modified_counter = 0
    /\ writes_left = MaxWrites - 1


\* C13 as claimed: on a write to a non-temporary table with initialised
\* statistics and persistent statistics enabled, the id is enqueued and the
\* counter reset when the incremented counter exceeds row_count / 10, automatic
\* recalculation is on and the session is not vetoed; otherwise the pool is
\* unchanged and the counter only incremented; nothing is recomputed
C13_Original ==
    [][ LET tbl == dict_tables[1]
        IN  WriteStep /\ tbl.stat_initialized /\ tbl.persistent /\ ~tbl.temporary =>
                IF /\ tbl.stat_modified_counter + 1 > tbl.stat_n_rows \div 10
                   /\ tbl.auto_recalc
                   /\ ~wsrep_bf
                THEN /\ 1 \in Range(recalc_pool')
                     /\ dict_tables'[1].stat_modified_counter = 0
                     /\ dict_tables'[1].since_recalc = tbl.since_recalc
                ELSE /\ recalc_pool' = recalc_pool
                     /\ OnlyCounted ]_vars

\* C13: the same with the counter as read before the increment: the id is
\* enqueued and the counter reset when that value exceeds row_count / 10,
\* automatic recalculation is on and the session is not vetoed; otherwise the
\* pool is unchanged and the counter only incremented; nothing is recomputed
\* in the session's thread.
C13_PersistentEnqueue ==
    [][ LET tbl == dict_tables[1]
        IN  WriteStep /\ tbl.stat_initialized /\ tbl.persistent /\ ~tbl.temporary =>
                IF /\ tbl.stat_modified_counter > tbl.stat_n_rows \div 10
                   /\ tbl.auto_recalc
                   /\ ~wsrep_bf
                THEN /\ 1 \in Range(recalc_pool')
                     /\ dict_tables'[1].stat_modified_counter = 0
                     /\ dict_tables'[1].since_recalc = tbl.since_recalc
                ELSE /\ recalc_pool' = recalc_pool
                     /\ OnlyCounted ]_vars

\* C13 witness: the first write to a persistent table of 160 rows, whose
\* counter exceeded 16, has enqueued it, reset the counter and armed the timer
C13_Witness ==
    /\ dict_tables[1].persistent
    /\ ~dict_tables[1].temporary
    /\ dict_tables[1].stat_initialized
    /\ dict_tables[1].auto_recalc
    /\ ~wsrep_bf
    /\ dict_tables[1].stat_n_rows = 160
    /\ dict_tables[1].stat_modified_counter = 0
    /\ dict_tables[1].since_recalc = MIN_RECALC_INTERVAL
    /\ recalc_pool = << 1 >>
    /\ timer_due = 0
    /\ writes_left = MaxWrites - 1


\* the step of dict_stats_deinit() on an initialised subsystem
DeinitStep == stats_initialised /\ ~stats_initialised'

\* dict_stats_deinit() may be called: the task has exited and no other
\* administrative or DDL call is running
DeinitCallable ==
    adm_pc = "idle" /\ ddl_pc = "idle" /\ bg_pc = "idle" /\ ~dict_stats_timer

\* C14: dict_stats_deinit() on an initialised subsystem leaves the pool empty
\* and the subsystem uninitialised; called when the subsystem is not
\* initialised (never initialised, or after a first dict_stats_deinit()) it
\* returns and changes nothing.
C14_Deinit ==
    /\ [][ DeinitStep => recalc_pool' = << >> /\ ~stats_initialised' ]_vars
    /\ [] ( ~stats_initialised /\ DeinitCallable =>
              /\ ENABLED (dict_stats_deinit /\ UNCHANGED vars)
              /\ ~ENABLED (dict_stats_deinit /\ vars' # vars) )

\* C14 witness: dict_stats_deinit() has run on an initialised subsystem whose
\* timer had been started and shut down after the callback recomputed table 1
C14_Witness ==
    /\ stats_deinit_done
    /\ ~stats_initialised
    /\ recalc_pool = << >>
    /\ dict_tables[1].since_recalc = 0
    /\ adm_pc = "idle"


\* the step of dict_stats_shutdown() that takes dict_stats_mutex
ShutdownLockStep == adm_pc = "idle" /\ adm_pc' = "shutdown"

\* C15: the steps of dict_stats_shutdown() leave the pool (ids and order),
\* every table (counter, flag, time of the last recalculation) and the
\* initialisation state as they are; they change only the timer, its pending
\* firing and dict_stats_mutex.
C15_ShutdownKeepsPool ==
    [][ ShutdownLockStep \/ ShutdownStep =>
          UNCHANGED << recalc_pool, enq_older, dict_tables, life_vars, bg_vars >> ]_vars

\* C15 witness: the timer was shut down after the callback had recomputed
\* table 2, and two ids are pending
C15_Witness ==
    /\ ~dict_stats_timer
    /\ live_timers = 0
    /\ adm_pc = "idle"
    /\ stats_initialised
    /\ dict_tables[2].since_recalc = 0
    /\ Len(recalc_pool) = 2


\* C16 as claimed: dict_stats_recalc_pool_add() called before dict_stats_init()
\* or after dict_stats_deinit() fails an assertion, so no step taken while the
\* subsystem is not initialised inserts an id into the pool
C16_MisuseAsserts ==
    [][ ~stats_initialised /\ ~stats_initialised' => recalc_pool' = recalc_pool ]_vars


C18_NoTimerLockUnderPool ==
    [][ << "recalc_pool_mutex", "dict_stats_mutex" >> \notin LockPairs ]_vars


\* a thread is inside the callback, the drop of a table, or
\* dict_stats_start() / dict_stats_shutdown()
SomeThreadMidway == bg_pc # "idle" \/ ddl_pc # "idle" \/ adm_pc # "idle"

\* C19: while dict_stats_shutdown() holds dict_stats_mutex and waits for the
\* running callback, the callback's dict_stats_schedule() does not block; no
\* state has every thread that is inside an operation blocked; and a
\* dict_stats_shutdown() that has taken dict_stats_mutex eventually returns.
C19_ShutdownReturns ==
    /\ [](bg_pc = "schedule" => ENABLED process_entry_schedule)
    /\ [](SomeThreadMidway =>
             ENABLED (BgContinues \/ DdlContinues \/ AdmContinues))
    /\ (adm_pc = "shutdown") ~> (adm_pc = "idle")

\* C19 witness: dict_stats_shutdown() holds dict_stats_mutex and waits for the
\* callback, whose dict_stats_schedule() has just returned without arming
C19_Witness ==
    /\ adm_pc = "shutdown"
    /\ dict_stats_mutex = "adm"
    /\ bg_pc = "close"
    /\ ~ret
    /\ timer_due = TimerOff


\* what a call of dict_stats_schedule(ms) leaves behind
ScheduleOutcome(ms) ==
    /\ UNCHANGED << dict_stats_timer, live_timers, dict_stats_mutex, adm_pc >>
    /\ dict_stats_mutex # "free" => timer_due' = timer_due
    /\ dict_stats_mutex = "free" /\ ~dict_stats_timer => timer_due' = timer_due
    /\ dict_stats_mutex = "free" /\ dict_stats_timer => timer_due' = ms

\* C20: dict_stats_schedule(ms) never blocks; with dict_stats_mutex held by
\* another thread it leaves the timer and its armed delay as they are; with the
\* mutex free and no timer it changes nothing; with the mutex free and a timer
\* the armed delay becomes ms, whatever was armed before.
C20_ScheduleOutcomes ==
    /\ [][ /\ BgScheduleStep => ScheduleOutcome(MIN_RECALC_INTERVAL * 1000)
           /\ AddScheduleStep => ScheduleOutcome(0) ]_vars
    /\ [](bg_pc = "schedule" /\ ~aborted =>
             ENABLED (process_entry_schedule /\ bg_pc' = "close"))
    /\ [](stats_initialised /\ ~aborted =>
             \A t \in Tables :
                 dict_tables[t].exists => ENABLED dict_stats_update_if_needed_func(t))

\* C20 witness: the callback's dict_stats_schedule() has armed the timer with
\* dict_stats_mutex free, while the re-enqueued id and another one are pending
C20_Witness ==
    /\ bg_pc = "close"
    /\ ~ret
    /\ dict_stats_mutex = "free"
    /\ dict_stats_timer
    /\ timer_due = MIN_RECALC_INTERVAL * 1000
    /\ Len(recalc_pool) = 2



\* a session's write to t that called dict_stats_recalc_pool_add(t, true):
\* the counter of the persistent table is back at 0
WriteAdds(t) ==
    /\ WriteStep
    /\ dict_tables'[t] # dict_tables[t]
    /\ dict_tables'[t].stat_modified_counter = 0

\* C21: dict_stats_recalc_pool_add(t, true) asks for an immediate firing
\* exactly when t was not pending and the pool was empty; an add of a pending
\* id or into a non-empty pool, and the callback's add(t, false), leave the
\* timer and its armed delay as they are.
C21_AddSchedulesIff ==
    [][ /\ \A t \in Tables :
             WriteAdds(t) =>
               /\ UNCHANGED << dict_stats_timer, live_timers, dict_stats_mutex >>
               /\ IF t \notin Range(recalc_pool) /\ recalc_pool = << >>
                  THEN timer_due' = 0 /\ recalc_pool' = << t >>
                  ELSE timer_due' = timer_due
        /\ RequeueStep =>
             UNCHANGED << timer_due, dict_stats_timer, live_timers,
                          dict_stats_mutex >> ]_vars

\* C21 witness: the callback took the only id, a session then enqueued table 2
\* into the empty pool and armed the timer, and the callback re-enqueued
\* table 1 behind it without touching the timer
C21_Witness ==
    /\ bg_pc = "schedule"
    /\ table_id = 1
    /\ recalc_pool = << 2, 1 >>
    /\ timer_due = 0


\* the callback's last step for a throttled table: flag cleared, table closed
ThrottledCloseStep == bg_pc = "close" /\ ~ret /\ bg_pc' # "close"

\* the throttled branch up to the close leaves the statistics of the table alone
ThrottleKeepsStats ==
    /\ dict_tables'[table_id].since_recalc = dict_tables[table_id].since_recalc
    /\ dict_tables'[table_id].stat_modified_counter =
         dict_tables[table_id].stat_modified_counter

\* the re-enqueue and the rescheduling of the throttled branch
ThrottleRequeues ==
    /\ RequeueStep =>
         /\ recalc_too_soon(dict_tables[table_id])
         /\ ThrottleKeepsStats
         /\ table_id \in Range(recalc_pool')
         /\ timer_due' = timer_due
    /\ BgScheduleStep =>
         /\ ThrottleKeepsStats
         /\ timer_due' = MIN_RECALC_INTERVAL * 1000
         /\ UNCHANGED recalc_pool

\* C22 as claimed: the throttled id is in the pool when the callback has
\* finished handling it
C22_Original ==
    [][ /\ ThrottleRequeues
        /\ ThrottledCloseStep =>
             ThrottleKeepsStats /\ table_id \in Range(recalc_pool') ]_vars

\* C22: a table recalculated less than MIN_RECALC_INTERVAL ago is not
\* recomputed; it is re-enqueued by add(table, false), which leaves the timer
\* alone, and dict_stats_schedule(MIN_RECALC_INTERVAL*1000) is called; when the
\* callback has finished handling it the id is in the pool, unless the drop of
\* that very table has removed it in between.
C22_ThrottleStep ==
    [][ /\ ThrottleRequeues
        /\ ThrottledCloseStep =>
             /\ ThrottleKeepsStats
             /\ \/ table_id \in Range(recalc_pool')
                \/ ddl_table = table_id /\ ddl_pc # "idle" ]_vars

\* C22 witness: the callback has finished with table 2, throttled: it is
\* pending, not recomputed, and the firing is MIN_RECALC_INTERVAL away
C22_Witness ==
    /\ bg_pc = "idle"
    /\ recalc_pool = << 2 >>
    /\ dict_tables[2].since_recalc = 0
    /\ dict_tables[2].stats_bg_flag = BG_STAT_NONE
    /\ timer_due = MIN_RECALC_INTERVAL * 1000
    /\ ddl_pc = "idle"


\* the callback's invocation ends
PassEndsStep == bg_pc # "idle" /\ bg_pc' = "idle"

\* C23 as claimed: the invocation ends only when
\* dict_stats_recalc_pool_get() finds the pool empty
C23_Original ==
    [][ PassEndsStep => bg_pc = "get" /\ recalc_pool = << >> ]_vars

\* C23: the invocation goes on to the next id after a recomputed or an
\* unresolvable table and ends when dict_stats_recalc_pool_get() finds the pool
\* empty or when a table has been throttled; the ids behind a throttled table
\* stay in the pool for the next firing.
C23_LoopEnds ==
    [][ /\ PassEndsStep =>
             \/ bg_pc = "get" /\ recalc_pool = << >>
             \/ ThrottledCloseStep
        /\ ThrottledCloseStep =>
             bg_pc' = "idle" /\ recalc_pool' = recalc_pool
        /\ bg_pc = "close" /\ ret /\ bg_pc' # "close" => bg_pc' = "get"
        /\ bg_pc = "open" /\ bg_pc' \notin { "open", "check" } => bg_pc' = "get"
        /\ bg_pc = "get" /\ recalc_pool # << >> => bg_pc' \in { "get", "open" } ]_vars

\* C23 witness: the invocation has ended after throttling table 2 while
\* table 1, recalculated long ago, is still pending in front of it
C23_Witness ==
    /\ bg_pc = "idle"
    /\ recalc_pool = << 1, 2 >>
    /\ dict_tables[2].since_recalc = 0
    /\ dict_tables[1].since_recalc = MIN_RECALC_INTERVAL
    /\ timer_due = MIN_RECALC_INTERVAL * 1000


\* the callback's step that found no table for the id, or an inaccessible one
NoTableStep ==
    /\ bg_pc = "open"
    /\ bg_pc' # "open"
    /\ ~dict_tables[table_id].exists \/ ~dict_tables[table_id].accessible

\* C24: when the id taken resolves to no table or to an inaccessible one, the
\* callback releases dict_sys.latch, sets no flag, recomputes nothing, does not
\* re-enqueue the id, leaves the timer alone, reports nothing and goes on to
\* the next id in the same invocation.
C24_StaleSkipped ==
    [][ NoTableStep =>
          /\ dict_sys_latch = "free" /\ dict_sys_latch' = "free"
          /\ dict_tables' = dict_tables
          /\ recalc_pool' = recalc_pool
          /\ UNCHANGED << timer_vars, dict_stats_mutex, ret >>
          /\ bg_pc' = "get" ]_vars

\* C24 witness: the callback has skipped an inaccessible table and is about
\* to take the next id of the same invocation
C24_Witness ==
    /\ bg_pc = "get"
    /\ table_id # NoTable
    /\ dict_tables[table_id].exists
    /\ ~dict_tables[table_id].accessible
    /\ dict_tables[table_id].stats_bg_flag = BG_STAT_NONE
    /\ recalc_pool # << >>


\* the tables marked BG_STAT_IN_PROGRESS
InProgress == { t \in Tables : dict_tables[t].stats_bg_flag = BG_STAT_IN_PROGRESS }

\* the flag of t changes in this step
FlagChanges(t) == dict_tables'[t].stats_bg_flag # dict_tables[t].stats_bg_flag

\* C25: a flag changes only in a step of the callback that has taken
\* dict_sys.latch: to IN_PROGRESS for the table just opened and accessible,
\* back to NONE when the callback closes it; at most one table is IN_PROGRESS;
\* and while no invocation of the callback runs every flag is NONE.
C25_FlagProtocol ==
    /\ [][ \A t \in Tables :
             FlagChanges(t) =>
               /\ BgCatalogLockStep
               /\ dict_sys_latch = "free" /\ dict_sys_latch' = "free"
               /\ t = table_id
               /\ IF bg_pc = "open"
                  THEN /\ dict_tables[t].exists /\ dict_tables[t].accessible
                       /\ dict_tables'[t].stats_bg_flag = BG_STAT_IN_PROGRESS
                  ELSE /\ bg_pc = "close"
                       /\ dict_tables'[t].stats_bg_flag = BG_STAT_NONE ]_vars
    /\ [](Cardinality(InProgress) <= 1)
    /\ [](InProgress # {} <=> bg_pc \in { "check", "schedule", "close" })
    /\ [](bg_pc = "idle" => InProgress = {})

\* C25 witness: the callback has marked its table and released dict_sys.latch,
\* which the drop of another table now holds
C25_Witness ==
    /\ bg_pc = "check"
    /\ InProgress = { table_id }
    /\ dict_sys_latch = "ddl"
    /\ ddl_table # table_id


\* id t leaves the pool in this step
LeavesPool(t) == t \in Range(recalc_pool) /\ t \notin Range(recalc_pool')

\* C26: the callback's get removes the id from the pool in the step before
\* the one that opens the table; ids leave the pool only through that get or
\* through the drop path's del; and the callback works on one table at a time,
\* the one it took, also while sessions enqueue the same id again.
C26_RemovedBeforeUse ==
    /\ [][ /\ TakeFirstStep /\ recalc_pool # << >> =>
                 /\ table_id' = recalc_pool[1]
                 /\ table_id' \notin Range(recalc_pool')
                 /\ bg_pc' = "open"
                 /\ dict_tables' = dict_tables
                 /\ InProgress = {}
           /\ \A t \in Tables :
                 LeavesPool(t) =>
                   \/ TakeFirstStep /\ t = table_id'
                   \/ DelStep /\ t = ddl_table' ]_vars
    /\ [](\A t \in Tables : BgUses(t) => InProgress = { t })

\* C26 witness: while the callback works on the table it took, a session has
\* enqueued the same id again
C26_Witness ==
    /\ bg_pc = "check"
    /\ BgUses(table_id)
    /\ recalc_pool = << table_id >>
    /\ dict_tables[table_id].stats_bg_flag = BG_STAT_IN_PROGRESS


\* a session's write to t has run
WriteTo(t) == WriteStep /\ dict_tables'[t] # dict_tables[t]

\* C27: a write to a temporary table with persistent statistics counts the
\* modification and does nothing else: no id is enqueued, nothing is
\* recomputed, the timer is left alone; so no temporary table is pending or
\* held by the callback, and the callback's assertion on the opened table holds.
C27_TemporaryNeverQueued ==
    /\ [][ \A t \in Tables :
             WriteTo(t) /\ dict_tables[t].temporary /\ dict_tables[t].persistent =>
               /\ dict_tables'[t] = counted(dict_tables[t])
               /\ UNCHANGED << recalc_pool, timer_vars >> ]_vars
    /\ [](\A t \in Range(recalc_pool) :
             dict_tables[t].exists => ~table_is_temporary(dict_tables[t]))
    /\ [](bg_pc # "idle" /\ table_id # NoTable /\ dict_tables[table_id].exists
             => ~table_is_temporary(dict_tables[table_id]))

\* C27 witness: table 1, temporary with persistent statistics, has taken all
\* the writes and the pool is empty, while table 2 is not temporary
C27_Witness ==
    /\ dict_tables[1].temporary
    /\ dict_tables[1].persistent
    /\ dict_tables[1].stat_modified_counter = MaxWrites
    /\ ~dict_tables[2].temporary
    /\ recalc_pool = << >>
    /\ bg_pc = "idle"
    /\ timer_due = TimerOff


\* the drop path's last step: the table object is freed
FreeStep == ddl_pc = "stopped" /\ ddl_pc' = "idle"

\* C28: the callback holds one handle, of the table it opened, from the open
\* to the close and none otherwise: the handle of an inaccessible table is
\* given back in the step that took it, the others in the close; when the
\* invocation has ended no table is referenced, and a table is freed only
\* with no handle of the callback on it.
C28_HandleBalance ==
    /\ [](\A t \in Tables :
             dict_tables[t].n_ref_count = (IF BgUses(t) THEN 1 ELSE 0))
    /\ [](bg_pc = "idle" => \A t \in Tables : dict_tables[t].n_ref_count = 0)
    /\ [][ /\ NoTableStep => dict_tables'[table_id].n_ref_count = 0
           /\ bg_pc = "close" /\ bg_pc' # "close" =>
                 /\ dict_tables[table_id].n_ref_count = 1
                 /\ dict_tables'[table_id].n_ref_count = 0
           /\ FreeStep => dict_tables[ddl_table].n_ref_count = 0 ]_vars

\* C28 witness: an invocation that opened a table which is inaccessible now
\* has ended with the pool empty, and no handle is left on any table
C28_Witness ==
    /\ bg_pc = "idle"
    /\ \E t \in Tables :
          /\ dict_tables[t].exists
          /\ ~dict_tables[t].accessible
          /\ dict_tables[t].stat_modified_counter = 0
          /\ writes_left = MaxWrites - 2
    /\ \A t \in Tables : dict_tables[t].n_ref_count = 0
    /\ recalc_pool = << >>
    /\ timer_due = TimerOff

=============================================================================
